---- MODULE Spec2Model ----
(***************************************************************************)
(* Connection lifecycle controller of stealth-companion                    *)
(* (src/handlers/connectionHandler.ts): the module-level connection state, *)
(* the two timers, scheduleReconnection / performReconnection, the status  *)
(* handler handleConnection and initializeConnectionMonitoring.            *)
(*                                                                         *)
(* Time is counted in seconds (the source counts milliseconds; its two     *)
(* internal constants are 5000 ms and 1000 ms).  A timer never runs before *)
(* it is due and the clock does not pass a due timer: every order of the   *)
(* callbacks and notifications that are ready at one instant is explored.  *)
(***************************************************************************)
EXTENDS Integers, Sequences, FiniteSets, TLC

\* ---------------------------------------------------------------- bounds
\* The clock reading when the process starts (Date.now() at start-up), and
\* how many seconds of operation are explored after it.
StartTime == 10
Horizon == 12
\* How many times main() may run initializeConnectionMonitoring.
MaxInit == 2
\* How many seconds are explored when the process starts with the clock at 0.
EpochHorizon == 8

\* ---------------------------------------------------------------- configuration
\* RECONNECT_CONFIG as read from the environment: RECONNECT_MAX_RETRIES=2,
\* RECONNECT_RETRY_DELAY=1000, RECONNECT_CONNECTION_TIMEOUT=2000.
MaxRetries == 2
RetryDelay == 1
ConnectionTimeout == 2

RECONNECT_CONFIG ==
    [maxRetries |-> MaxRetries, retryDelay |-> RetryDelay, connectionTimeout |-> ConnectionTimeout]

MIN_CONNECTION_INTERVAL == 5
MIN_CONNECTING_EVENT_INTERVAL == 1

\* The status tokens of ConnectionStatus; "qr" and "error" have no case of
\* their own in handleConnection.
ConnectionStatus == {"connecting", "connected", "disconnected", "open", "close", "qr", "error"}

VARIABLES
    connectionTimeout,      \* handle of the establishment timer, 0 = null
    reconnectionTimeout,    \* handle of the reconnection timer, 0 = null
    currentClient,          \* the transport instance in use, 0 = null
    isReconnecting,
    isConnected,
    lastConnectionAttempt,
    lastConnectingEvent,
    currentRetries,         \* RECONNECT_CONFIG.currentRetries
    timers,                 \* the runtime's pending timers
    now,                    \* Date.now()
    listeners,              \* per constructed client: handleConnection subscriptions
    awaiting,               \* performReconnection executions suspended at the await
    initCalls,              \* runs of main()
    log,                    \* what the step just taken wrote to botLogger
    attempts,               \* history: performReconnection executions started since
                            \* the last Succeeded outcome or initialize
    constructing,           \* history: the client constructed by the execution of
                            \* performReconnection suspended at the await; 0 when
                            \* none is suspended or initialize ran during the await
    recovered,              \* history: the last Succeeded outcome arrived with the
                            \* retry budget used up and no attempt left to run
    built                   \* history: replacement transports constructed since the
                            \* last Succeeded outcome or initialize

vars == <<connectionTimeout, reconnectionTimeout, currentClient, isReconnecting, isConnected,
          lastConnectionAttempt, lastConnectingEvent, currentRetries, timers, now,
          listeners, awaiting, initCalls, log, attempts, constructing, recovered, built>>

Max(a, b) == IF a >= b THEN a ELSE b

\* The controller state as one value, for the functions below to transform.
Cur ==
    [connectionTimeout |-> connectionTimeout, reconnectionTimeout |-> reconnectionTimeout,
     currentClient |-> currentClient, isReconnecting |-> isReconnecting,
     isConnected |-> isConnected, lastConnectionAttempt |-> lastConnectionAttempt,
     lastConnectingEvent |-> lastConnectingEvent, currentRetries |-> currentRetries,
     timers |-> timers, now |-> now, listeners |-> listeners, awaiting |-> awaiting,
     initCalls |-> initCalls, log |-> <<>>]

Set(s) ==
    /\ connectionTimeout' = s.connectionTimeout
    /\ reconnectionTimeout' = s.reconnectionTimeout
    /\ currentClient' = s.currentClient
    /\ isReconnecting' = s.isReconnecting
    /\ isConnected' = s.isConnected
    /\ lastConnectionAttempt' = s.lastConnectionAttempt
    /\ lastConnectingEvent' = s.lastConnectingEvent
    /\ currentRetries' = s.currentRetries
    /\ timers' = s.timers
    /\ now' = s.now
    /\ listeners' = s.listeners
    /\ awaiting' = s.awaiting
    /\ initCalls' = s.initCalls
    /\ log' = s.log

Logged(s, msg) == [s EXCEPT !.log = Append(@, msg)]

\* ---------------------------------------------------------------- timers
\* setTimeout returns a Timeout object distinct from every one still
\* referenced: the least identity neither pending nor held in a handle.
UsedIds(s) == {t.id : t \in s.timers} \cup {s.connectionTimeout, s.reconnectionTimeout}

FreshId(s) == CHOOSE i \in 1..(Cardinality(UsedIds(s)) + 1) :
                 /\ i \notin UsedIds(s)
                 /\ \A j \in 1..(i - 1) : j \in UsedIds(s)

setTimeout(s, id, kind, delay, by) ==
    [s EXCEPT !.timers = @ \cup {[id |-> id, kind |-> kind, due |-> s.now + delay, by |-> by]}]

\* clearTimeout of a timer that already ran does nothing.
clearTimeout(s, id) == [s EXCEPT !.timers = {t \in @ : t.id # id}]

\* clearConnectionTimeout forgetting clearTimeout: the handle is dropped, the
\* timer stays pending.
clearConnectionTimeout_NoCancel(s) ==
    IF s.connectionTimeout # 0
    THEN Logged([s EXCEPT !.connectionTimeout = 0], "Connection timeout cleared")
    ELSE s

clearConnectionTimeout(s) ==
    IF s.connectionTimeout # 0
    THEN Logged([clearTimeout(s, s.connectionTimeout) EXCEPT !.connectionTimeout = 0],
                "Connection timeout cleared")
    ELSE s

\* clearReconnectionTimeout forgetting clearTimeout.
clearReconnectionTimeout_NoCancel(s) ==
    IF s.reconnectionTimeout # 0
    THEN Logged([s EXCEPT !.reconnectionTimeout = 0], "Reconnection timeout cleared")
    ELSE s

clearReconnectionTimeout(s) ==
    IF s.reconnectionTimeout # 0
    THEN Logged([clearTimeout(s, s.reconnectionTimeout) EXCEPT !.reconnectionTimeout = 0],
                "Reconnection timeout cleared")
    ELSE s

\* setConnectionEstablishmentTimeout without the clearConnectionTimeout() call.
setConnectionEstablishmentTimeout_NoClear(s, by) ==
    LET id == FreshId(s)
    IN Logged([setTimeout(s, id, "connection", RECONNECT_CONFIG.connectionTimeout, by)
                  EXCEPT !.connectionTimeout = id],
              "Connection establishment timeout set")

\* setConnectionEstablishmentTimeout arming the timer for the wrong duration
\* (MIN_CONNECTION_INTERVAL instead of RECONNECT_CONFIG.connectionTimeout).
setConnectionEstablishmentTimeout_WrongDelay(s, by) ==
    LET c == clearConnectionTimeout(s)
        id == FreshId(c)
    IN Logged([setTimeout(c, id, "connection", MIN_CONNECTION_INTERVAL, by)
                  EXCEPT !.connectionTimeout = id],
              "Connection establishment timeout set")

\* by: the caller, kept with the timer ("connecting" or "performReconnection").
setConnectionEstablishmentTimeout(s, by) ==
    LET c == clearConnectionTimeout(s)
        id == FreshId(c)
    IN Logged([setTimeout(c, id, "connection", RECONNECT_CONFIG.connectionTimeout, by)
                  EXCEPT !.connectionTimeout = id],
              "Connection establishment timeout set")

\* scheduleReconnection without the retry-budget check.
scheduleReconnection_NoBudget(s) ==
    IF s.isReconnecting
    THEN Logged(s, "Reconnection already in progress, skipping duplicate attempt")
    ELSE LET timeSinceLastAttempt == s.now - s.lastConnectionAttempt
             minDelay == Max(0, MIN_CONNECTION_INTERVAL - timeSinceLastAttempt)
             totalDelay == RECONNECT_CONFIG.retryDelay + minDelay
             s1 == Logged([s EXCEPT !.currentRetries = @ + 1, !.isReconnecting = TRUE],
                          "Attempting reconnection")
             s2 == clearReconnectionTimeout(s1)
             id == FreshId(s2)
         IN [setTimeout(s2, id, "reconnection", totalDelay, "scheduleReconnection")
                EXCEPT !.reconnectionTimeout = id]

\* scheduleReconnection without the minimum interval between attempts.
scheduleReconnection_NoMinDelay(s) ==
    IF s.isReconnecting
    THEN Logged(s, "Reconnection already in progress, skipping duplicate attempt")
    ELSE IF s.currentRetries >= RECONNECT_CONFIG.maxRetries
    THEN Logged(s, "Maximum reconnection attempts reached")
    ELSE LET totalDelay == RECONNECT_CONFIG.retryDelay
             s1 == Logged([s EXCEPT !.currentRetries = @ + 1, !.isReconnecting = TRUE],
                          "Attempting reconnection")
             s2 == clearReconnectionTimeout(s1)
             id == FreshId(s2)
         IN [setTimeout(s2, id, "reconnection", totalDelay, "scheduleReconnection")
                EXCEPT !.reconnectionTimeout = id]

\* scheduleReconnection with a delay that grows with the retry count.
scheduleReconnection_Backoff(s) ==
    IF s.isReconnecting
    THEN Logged(s, "Reconnection already in progress, skipping duplicate attempt")
    ELSE IF s.currentRetries >= RECONNECT_CONFIG.maxRetries
    THEN Logged(s, "Maximum reconnection attempts reached")
    ELSE LET timeSinceLastAttempt == s.now - s.lastConnectionAttempt
             minDelay == Max(0, MIN_CONNECTION_INTERVAL - timeSinceLastAttempt)
             totalDelay == RECONNECT_CONFIG.retryDelay * (s.currentRetries + 1) + minDelay
             s1 == Logged([s EXCEPT !.currentRetries = @ + 1, !.isReconnecting = TRUE],
                          "Attempting reconnection")
             s2 == clearReconnectionTimeout(s1)
             id == FreshId(s2)
         IN [setTimeout(s2, id, "reconnection", totalDelay, "scheduleReconnection")
                EXCEPT !.reconnectionTimeout = id]

\* scheduleReconnection that does not count the attempt it schedules.
scheduleReconnection_NoIncrement(s) ==
    IF s.isReconnecting
    THEN Logged(s, "Reconnection already in progress, skipping duplicate attempt")
    ELSE IF s.currentRetries >= RECONNECT_CONFIG.maxRetries
    THEN Logged(s, "Maximum reconnection attempts reached")
    ELSE LET timeSinceLastAttempt == s.now - s.lastConnectionAttempt
             minDelay == Max(0, MIN_CONNECTION_INTERVAL - timeSinceLastAttempt)
             totalDelay == RECONNECT_CONFIG.retryDelay + minDelay
             s1 == Logged([s EXCEPT !.isReconnecting = TRUE], "Attempting reconnection")
             s2 == clearReconnectionTimeout(s1)
             id == FreshId(s2)
         IN [setTimeout(s2, id, "reconnection", totalDelay, "scheduleReconnection")
                EXCEPT !.reconnectionTimeout = id]

\* scheduleReconnection without the isReconnecting check.
scheduleReconnection_NoGuard(s) ==
    IF s.currentRetries >= RECONNECT_CONFIG.maxRetries
    THEN Logged(s, "Maximum reconnection attempts reached")
    ELSE LET timeSinceLastAttempt == s.now - s.lastConnectionAttempt
             minDelay == Max(0, MIN_CONNECTION_INTERVAL - timeSinceLastAttempt)
             totalDelay == RECONNECT_CONFIG.retryDelay + minDelay
             s1 == Logged([s EXCEPT !.currentRetries = @ + 1, !.isReconnecting = TRUE],
                          "Attempting reconnection")
             s2 == clearReconnectionTimeout(s1)
             id == FreshId(s2)
         IN [setTimeout(s2, id, "reconnection", totalDelay, "scheduleReconnection")
                EXCEPT !.reconnectionTimeout = id]

scheduleReconnection(s) ==
    IF s.isReconnecting
    THEN Logged(s, "Reconnection already in progress, skipping duplicate attempt")
    ELSE IF s.currentRetries >= RECONNECT_CONFIG.maxRetries
    THEN Logged(s, "Maximum reconnection attempts reached")
    ELSE LET timeSinceLastAttempt == s.now - s.lastConnectionAttempt
             minDelay == Max(0, MIN_CONNECTION_INTERVAL - timeSinceLastAttempt)
             totalDelay == RECONNECT_CONFIG.retryDelay + minDelay
             s1 == Logged([s EXCEPT !.currentRetries = @ + 1, !.isReconnecting = TRUE],
                          "Attempting reconnection")
             s2 == clearReconnectionTimeout(s1)
             id == FreshId(s2)
         IN [setTimeout(s2, id, "reconnection", totalDelay, "scheduleReconnection")
                EXCEPT !.reconnectionTimeout = id]

\* ---------------------------------------------------------------- performReconnection
\* catch block that reschedules without the retry-budget check.
performReconnectionCatch_NoBudget(s) ==
    scheduleReconnection_NoBudget(
        [Logged(s, "Reconnection attempt failed") EXCEPT !.isReconnecting = FALSE])

\* catch block of performReconnection.
performReconnectionCatch(s) ==
    scheduleReconnection([Logged(s, "Reconnection attempt failed") EXCEPT !.isReconnecting = FALSE])

\* performReconnection resetting the retry counter once the new client is
\* constructed.
performReconnectionStart_ResetsRetries(s, throws) ==
    LET s1 == [s EXCEPT !.lastConnectionAttempt = s.now, !.currentClient = 0]
    IN IF throws
       THEN performReconnectionCatch(s1)
       ELSE [s1 EXCEPT !.listeners = Append(@, 0),
                       !.currentClient = Len(s.listeners) + 1,
                       !.awaiting = @ + 1,
                       !.currentRetries = 0]

\* performReconnection without its try/catch: a throwing constructor leaves
\* the function at once and the rejection goes to the timer callback.
performReconnectionStart_NoCatch(s, throws) ==
    LET s1 == [s EXCEPT !.lastConnectionAttempt = s.now, !.currentClient = 0]
    IN IF throws
       THEN s1
       ELSE [s1 EXCEPT !.listeners = Append(@, 0),
                       !.currentClient = Len(s.listeners) + 1,
                       !.awaiting = @ + 1]

\* performReconnection constructing the new client without assigning it to
\* currentClient, which keeps the old one.
performReconnectionStart_KeepsOldClient(s, throws) ==
    LET s1 == [s EXCEPT !.lastConnectionAttempt = s.now]
    IN IF throws
       THEN performReconnectionCatch(s1)
       ELSE [s1 EXCEPT !.listeners = Append(@, 0),
                       !.awaiting = @ + 1]

\* Up to the await: the attempt is stamped, the old client dropped and the new
\* one constructed; a throwing constructor goes to the catch block.
performReconnectionStart(s, throws) ==
    LET s1 == [s EXCEPT !.lastConnectionAttempt = s.now, !.currentClient = 0]
    IN IF throws
       THEN performReconnectionCatch(s1)
       ELSE [s1 EXCEPT !.listeners = Append(@, 0),
                       !.currentClient = Len(s.listeners) + 1,
                       !.awaiting = @ + 1]

setupEventListeners(s, client) == [s EXCEPT !.listeners[client] = @ + 1]

\* After the await: the listeners go to whatever currentClient holds now, and
\* the establishment timeout is set; a rejected import or a throwing
\* setupEventListeners goes to the catch block, and so does client.on(...)
\* when currentClient has been set to null in the meantime.
performReconnectionResume(s, throws) ==
    LET s1 == [s EXCEPT !.awaiting = @ - 1]
    IN IF throws \/ s1.currentClient = 0
       THEN performReconnectionCatch(s1)
       ELSE Logged(setConnectionEstablishmentTimeout(setupEventListeners(s1, s1.currentClient),
                                                     "performReconnection"),
                   "Reconnection attempt initiated")

\* ---------------------------------------------------------------- handleConnection
\* botLogger receives the message texts; their interpolated values (status
\* token, attempt number, delays) are left out of log.
\* case 'connecting' without the debounce of rapid events.
handleConnecting_NoDebounce(s) ==
    LET s1 == Logged([s EXCEPT !.lastConnectingEvent = s.now],
                     "Connecting to WhatsApp...")
    IN IF s1.connectionTimeout = 0 /\ ~s1.isConnected
       THEN setConnectionEstablishmentTimeout(s1, "connecting")
       ELSE IF s1.connectionTimeout # 0
       THEN Logged(s1, "Connection timeout already active, not setting new one")
       ELSE s1

\* case 'connecting' arming the establishment timer without testing
\* isConnected.
handleConnecting_ArmsWhenConnected(s) ==
    IF s.now - s.lastConnectingEvent < MIN_CONNECTING_EVENT_INTERVAL
    THEN Logged(s, "Ignoring rapid 'connecting' event")
    ELSE LET s1 == Logged([s EXCEPT !.lastConnectingEvent = s.now],
                          "Connecting to WhatsApp...")
         IN IF s1.connectionTimeout = 0
            THEN setConnectionEstablishmentTimeout(s1, "connecting")
            ELSE Logged(s1, "Connection timeout already active, not setting new one")

\* case 'connecting'
handleConnecting(s) ==
    IF s.now - s.lastConnectingEvent < MIN_CONNECTING_EVENT_INTERVAL
    THEN Logged(s, "Ignoring rapid 'connecting' event")
    ELSE LET s1 == Logged([s EXCEPT !.lastConnectingEvent = s.now],
                          "Connecting to WhatsApp...")
         IN IF s1.connectionTimeout = 0 /\ ~s1.isConnected
            THEN setConnectionEstablishmentTimeout(s1, "connecting")
            ELSE IF s1.connectionTimeout # 0
            THEN Logged(s1, "Connection timeout already active, not setting new one")
            ELSE s1

\* case 'open' without the reset of the retry counter.
handleOpen_KeepsRetries(s) ==
    LET s1 == clearReconnectionTimeout(clearConnectionTimeout(
                  Logged(s, "Successfully connected to WhatsApp!")))
    IN [s1 EXCEPT !.isConnected = TRUE, !.isReconnecting = FALSE]

\* case 'open'
handleOpen(s) ==
    LET s1 == clearReconnectionTimeout(clearConnectionTimeout(
                  Logged(s, "Successfully connected to WhatsApp!")))
    IN [s1 EXCEPT !.isConnected = TRUE, !.isReconnecting = FALSE, !.currentRetries = 0]

\* case 'close'
handleClose(s) ==
    LET s1 == [Logged(s, "WhatsApp connection closed") EXCEPT !.isConnected = FALSE]
        s2 == clearReconnectionTimeout(clearConnectionTimeout(s1))
    IN IF ~s2.isReconnecting THEN scheduleReconnection(s2) ELSE s2

\* case 'connected' leaving isReconnecting as it is.
handleConnected_KeepsReconnecting(s) ==
    LET s1 == clearReconnectionTimeout(clearConnectionTimeout(
                  Logged(s, "Successfully connected to WhatsApp!")))
    IN [s1 EXCEPT !.isConnected = TRUE, !.currentRetries = 0]

\* case 'connected', the legacy name of 'open'
handleConnected(s) ==
    LET s1 == Logged(s, "Successfully connected to WhatsApp!")
        s2 == clearReconnectionTimeout(clearConnectionTimeout(s1))
    IN [s2 EXCEPT !.isConnected = TRUE, !.isReconnecting = FALSE, !.currentRetries = 0]

\* case 'disconnected', the legacy name of 'close'
handleDisconnected(s) ==
    LET s1 == [Logged(s, "WhatsApp connection closed") EXCEPT !.isConnected = FALSE]
        s2 == clearReconnectionTimeout(clearConnectionTimeout(s1))
    IN IF ~s2.isReconnecting THEN scheduleReconnection(s2) ELSE s2

\* default case that leaves a pending establishment timer in place.
handleDefault_KeepsConnectionTimeout(s) ==
    LET s1 == Logged(s, "Unhandled connection status")
    IN IF ~s1.isConnected /\ ~s1.isReconnecting
       THEN scheduleReconnection(s1)
       ELSE s1

\* default case
handleDefault(s) ==
    LET s1 == Logged(s, "Unhandled connection status")
    IN IF ~s1.isConnected /\ ~s1.isReconnecting
       THEN scheduleReconnection(clearReconnectionTimeout(clearConnectionTimeout(s1)))
       ELSE s1

handleConnection(s0, status) ==
    LET s == Logged(s0, "Connection status change")
    IN CASE status = "connecting" -> handleConnecting(s)
         [] status = "open" -> handleOpen(s)
         [] status = "close" -> handleClose(s)
         [] status = "connected" -> handleConnected(s)
         [] status = "disconnected" -> handleDisconnected(s)
         [] OTHER -> handleDefault(s)

\* initializeConnectionMonitoring without the two clear...Timeout() calls.
initializeConnectionMonitoring_KeepsTimers(s, client) ==
    LET s1 == [s EXCEPT !.currentClient = client, !.isConnected = FALSE,
                        !.isReconnecting = FALSE, !.currentRetries = 0,
                        !.lastConnectionAttempt = s.now, !.lastConnectingEvent = 0]
    IN Logged(s1, "Connection monitoring initialized for new client")

initializeConnectionMonitoring(s, client) ==
    LET s1 == [s EXCEPT !.currentClient = client, !.isConnected = FALSE,
                        !.isReconnecting = FALSE, !.currentRetries = 0,
                        !.lastConnectionAttempt = s.now, !.lastConnectingEvent = 0]
    IN Logged(clearReconnectionTimeout(clearConnectionTimeout(s1)),
              "Connection monitoring initialized for new client")

\* ---------------------------------------------------------------- getConnectionState
\* The object getConnectionState returns.
getConnectionStateResult(s) ==
    [isConnected |-> s.isConnected,
     isReconnecting |-> s.isReconnecting,
     currentRetries |-> s.currentRetries,
     hasActiveTimeout |-> s.connectionTimeout # 0,
     hasActiveReconnectionTimeout |-> s.reconnectionTimeout # 0,
     lastConnectionAttempt |-> s.lastConnectionAttempt,
     lastConnectingEvent |-> s.lastConnectingEvent,
     timeSinceLastConnectingEvent |-> s.now - s.lastConnectingEvent]

\* getConnectionState storing the time of the call in lastConnectingEvent
\* while it computes timeSinceLastConnectingEvent.
getConnectionState_StampsCall(s) == [s EXCEPT !.lastConnectingEvent = s.now]

\* The state getConnectionState leaves: its body is one return statement and
\* assigns nothing.
getConnectionState(s) == s

\* main(): a client is constructed, monitoring initialised for it and the
\* listeners attached to it.
main(s) ==
    LET client == Len(s.listeners) + 1
        s1 == [s EXCEPT !.listeners = Append(@, 0), !.initCalls = @ + 1]
    IN setupEventListeners(initializeConnectionMonitoring(s1, client), client)

\* ---------------------------------------------------------------- actions
Init ==
    /\ connectionTimeout = 0
    /\ reconnectionTimeout = 0
    /\ currentClient = 0
    /\ isReconnecting = FALSE
    /\ isConnected = FALSE
    /\ lastConnectionAttempt = 0
    /\ lastConnectingEvent = 0
    /\ currentRetries = 0
    /\ timers = {}
    /\ now = StartTime
    /\ listeners = <<>>
    /\ awaiting = 0
    /\ initCalls = 0
    /\ log = <<>>
    /\ attempts = 0
    /\ constructing = 0
    /\ recovered = FALSE
    /\ built = 0

Main ==
    /\ initCalls < MaxInit
    /\ Set(main(Cur))
    /\ attempts' = 0
    /\ constructing' = 0
    /\ recovered' = FALSE
    /\ built' = 0

\* A transport with the status listener attached emits a status.
HandleConnection(client, status) ==
    /\ listeners[client] > 0
    /\ Set(handleConnection(Cur, status))
    /\ attempts' = IF status \in {"open", "connected"} THEN 0 ELSE attempts
    /\ UNCHANGED constructing
    /\ recovered' = IF status \in {"open", "connected"}
                    THEN /\ currentRetries >= RECONNECT_CONFIG.maxRetries
                         /\ ~isReconnecting
                         /\ awaiting = 0
                         /\ \A t \in timers : t.kind # "reconnection"
                    ELSE recovered
    /\ built' = IF status \in {"open", "connected"} THEN 0 ELSE built

\* The exported attemptReconnection(); nothing in the repository calls it.
AttemptReconnection ==
    /\ initCalls > 0
    /\ Set(scheduleReconnection(Cur))
    /\ UNCHANGED <<attempts, constructing, recovered, built>>

\* Callback of the establishment timer.
ConnectionTimeoutFires(t) ==
    /\ t.kind = "connection"
    /\ t.due <= now
    /\ LET s == [Cur EXCEPT !.timers = @ \ {t}]
       IN IF ~s.isConnected /\ ~s.isReconnecting
          THEN Set(scheduleReconnection(
                      Logged(s, "Connection establishment timeout reached - no 'open' status received")))
          ELSE Set(s)
    /\ UNCHANGED <<attempts, constructing, recovered, built>>

\* Callback of the reconnection timer: performReconnection up to its await.
ReconnectionTimeoutFires(t, throws) ==
    /\ t.kind = "reconnection"
    /\ t.due <= now
    /\ Set(performReconnectionStart([Cur EXCEPT !.timers = @ \ {t}], throws))
    /\ attempts' = attempts + 1
    /\ constructing' = IF throws THEN constructing ELSE Len(listeners) + 1
    /\ UNCHANGED recovered
    /\ built' = IF throws THEN built ELSE built + 1

PerformReconnectionResume(throws) ==
    /\ awaiting > 0
    /\ Set(performReconnectionResume(Cur, throws))
    /\ constructing' = 0
    /\ UNCHANGED <<attempts, recovered, built>>

\* The clock advances by a second.  main() runs as soon as the process
\* starts, and the await in performReconnection (the import of a module that
\* is already loaded) is over before the clock has moved by a second.
Tick ==
    /\ initCalls > 0
    /\ awaiting = 0
    /\ now < StartTime + Horizon
    /\ \A t \in timers : t.due > now
    /\ Set([Cur EXCEPT !.now = @ + 1])
    /\ UNCHANGED <<attempts, constructing, recovered, built>>

Next ==
    \/ \E client \in 1..Len(listeners), status \in ConnectionStatus : HandleConnection(client, status)
    \/ \E t \in timers : ConnectionTimeoutFires(t)
    \/ \E t \in timers, throws \in BOOLEAN : ReconnectionTimeoutFires(t, throws)
    \/ \E throws \in BOOLEAN : PerformReconnectionResume(throws)
    \/ Tick
    \/ Main

\* The program as main() wires it: transports, timers and the clock.
Spec == Init /\ [][Next]_vars

\* The same with the exported attemptReconnection() called by other code.
NextApi == Next \/ AttemptReconnection

SpecApi == Init /\ [][NextApi]_vars

\* The exported getConnectionState(), for monitoring code to call at any time;
\* it writes nothing to botLogger.
GetConnectionState ==
    /\ Set(getConnectionState(Cur))
    /\ UNCHANGED <<attempts, constructing, recovered, built>>

NextMonitored == NextApi \/ GetConnectionState

SpecMonitored == Init /\ [][NextMonitored]_vars

\* The process starts with the clock within the first second of the epoch
\* (Date.now() = 0, as under a fake or unset clock).
InitAtEpoch ==
    /\ connectionTimeout = 0
    /\ reconnectionTimeout = 0
    /\ currentClient = 0
    /\ isReconnecting = FALSE
    /\ isConnected = FALSE
    /\ lastConnectionAttempt = 0
    /\ lastConnectingEvent = 0
    /\ currentRetries = 0
    /\ timers = {}
    /\ now = 0
    /\ listeners = <<>>
    /\ awaiting = 0
    /\ initCalls = 0
    /\ log = <<>>
    /\ attempts = 0
    /\ constructing = 0
    /\ recovered = FALSE
    /\ built = 0

\* The clock advances by a second, as in Tick, for as long as a start at the
\* epoch is explored.
TickAtEpoch ==
    /\ initCalls > 0
    /\ awaiting = 0
    /\ now < EpochHorizon
    /\ \A t \in timers : t.due > now
    /\ Set([Cur EXCEPT !.now = @ + 1])
    /\ UNCHANGED <<attempts, constructing, recovered, built>>

NextAtEpoch ==
    \/ \E client \in 1..Len(listeners), status \in ConnectionStatus : HandleConnection(client, status)
    \/ \E t \in timers : ConnectionTimeoutFires(t)
    \/ \E t \in timers, throws \in BOOLEAN : ReconnectionTimeoutFires(t, throws)
    \/ \E throws \in BOOLEAN : PerformReconnectionResume(throws)
    \/ TickAtEpoch
    \/ Main

SpecAtEpoch == InitAtEpoch /\ [][NextAtEpoch]_vars

TypeOK ==
    /\ connectionTimeout \in Nat
    /\ reconnectionTimeout \in Nat
    /\ isReconnecting \in BOOLEAN
    /\ isConnected \in BOOLEAN
    /\ currentRetries \in Nat
    /\ awaiting \in Nat

\* ---------------------------------------------------------------- properties
ConnectionTimers == {t \in timers : t.kind = "connection"}
ReconnectionTimers == {t \in timers : t.kind = "reconnection"}

InLog(msg) == \E i \in 1..Len(log) : log[i] = msg

\* A transport emits a Failed status ('close' or 'disconnected').
FailedNotification ==
    \E client \in 1..Len(listeners), status \in {"close", "disconnected"} :
        HandleConnection(client, status)

\* C1: at most one establishment timer and at most one reconnection timer is
\* pending, and a pending timer is the one its handle refers to (whatever was
\* armed before it has been cancelled).
C1_AtMostOneTimerOfEachKind ==
    /\ Cardinality(ConnectionTimers) <= 1
    /\ Cardinality(ReconnectionTimers) <= 1
    /\ \A t \in ConnectionTimers : t.id = connectionTimeout
    /\ \A t \in ReconnectionTimers : t.id = reconnectionTimeout

\* performReconnection has just re-armed the establishment timer over the one
\* a 'connecting' notification had armed, while a reconnection timer is pending.
C1_Witness ==
    /\ InLog("Connection timeout cleared")
    /\ InLog("Reconnection attempt initiated")
    /\ Cardinality(ConnectionTimers) = 1
    /\ Cardinality(ReconnectionTimers) = 1

\* C2: 0 <= retryCount <= maxRetries in every reachable state.
C2_RetryCountWithinBudget ==
    /\ currentRetries >= 0
    /\ currentRetries <= RECONNECT_CONFIG.maxRetries

\* scheduleReconnection was called with the budget used up and refused.
C2_Witness ==
    /\ currentRetries = RECONNECT_CONFIG.maxRetries
    /\ InLog("Maximum reconnection attempts reached")

\* C3: Connected implies retryCount = 0, isReconnecting = false and both timer
\* handles empty.
C3_ConnectedImpliesIdle ==
    isConnected =>
        /\ currentRetries = 0
        /\ ~isReconnecting
        /\ connectionTimeout = 0
        /\ reconnectionTimeout = 0

\* C4: isReconnecting implies not Connected and retryCount >= 1.
C4_ReconnectingImpliesNotConnected ==
    isReconnecting => (~isConnected /\ currentRetries >= 1)

\* C5: scheduleReconnection() called while isReconnecting = true changes
\* nothing: retryCount, the timers, the handles and the flag stay as they are.
C5_SingleFlightNoOp ==
    [][(isReconnecting /\ AttemptReconnection) =>
          /\ currentRetries' = currentRetries
          /\ timers' = timers
          /\ reconnectionTimeout' = reconnectionTimeout
          /\ connectionTimeout' = connectionTimeout
          /\ isReconnecting']_vars

\* The duplicate call has been skipped while the scheduled attempt is pending.
C5_Witness ==
    /\ log = <<"Reconnection already in progress, skipping duplicate attempt">>
    /\ isReconnecting
    /\ Cardinality(ReconnectionTimers) = 1

\* C6: pending reconnection timers plus performReconnection executions that
\* have started and not finished never exceed 1.
C6_SingleReconnectionSequence ==
    Cardinality(ReconnectionTimers) + awaiting <= 1

\* C7: a Failed notification handled with isReconnecting = false and
\* retryCount < maxRetries increments retryCount by one, sets isReconnecting,
\* leaves the status not Connected, no establishment timer pending and exactly
\* one reconnection timer pending.
C7_FailedSchedulesReconnection ==
    [][(~isReconnecting /\ currentRetries < RECONNECT_CONFIG.maxRetries /\ FailedNotification) =>
          /\ currentRetries' = currentRetries + 1
          /\ isReconnecting'
          /\ ~isConnected'
          /\ ConnectionTimers' = {}
          /\ Cardinality(ReconnectionTimers') = 1]_vars

\* A 'close' has cancelled the establishment timeout and scheduled an attempt.
C7_Witness ==
    /\ Len(log) >= 4
    /\ log[1] = "Connection status change"
    /\ log[2] = "WhatsApp connection closed"
    /\ log[3] = "Connection timeout cleared"
    /\ InLog("Attempting reconnection")
    /\ isReconnecting
    /\ ConnectionTimers = {}
    /\ Cardinality(ReconnectionTimers) = 1

\* An establishment timer armed by performReconnection is pending: an attempt
\* has executed and neither a Succeeded nor a Failed outcome has followed it.
AttemptAwaitingOutcome == \E t \in ConnectionTimers : t.by = "performReconnection"

\* C8: with no Succeeded outcome, the Failed notification that follows an
\* executed attempt schedules the next attempt while retryCount < maxRetries
\* (retryCount climbs 1, 2, ..., N).
C8_FailedAfterAttemptSchedulesNext ==
    [][(AttemptAwaitingOutcome /\ ~isConnected /\ currentRetries < RECONNECT_CONFIG.maxRetries
            /\ FailedNotification) =>
          /\ currentRetries' = currentRetries + 1
          /\ Cardinality(ReconnectionTimers') = 1]_vars

\* C9: the establishment timer armed by performReconnection firing without a
\* Succeeded outcome schedules a further reconnection while retryCount <
\* maxRetries.
C9_AttemptTimeoutSchedulesNext ==
    [][(/\ ~isConnected
        /\ currentRetries < RECONNECT_CONFIG.maxRetries
        /\ \E t \in timers : t.by = "performReconnection" /\ ConnectionTimeoutFires(t)) =>
          /\ currentRetries' = currentRetries + 1
          /\ Cardinality(ReconnectionTimers') = 1]_vars

\* C10: a Failed notification handled while a reconnection is scheduled and
\* has not executed leaves retryCount, isReconnecting and the pending
\* reconnection timer unchanged.
C10_FailedIgnoredWhileScheduled ==
    [][(isReconnecting /\ ReconnectionTimers # {} /\ FailedNotification) =>
          /\ currentRetries' = currentRetries
          /\ isReconnecting'
          /\ ReconnectionTimers' = ReconnectionTimers]_vars

\* The step wrote the first two log lines of a case of handleConnection.
\* Every HandleConnection step of that case satisfies it; it goes first where
\* a formula would otherwise evaluate the handler on every step.
StatusHandled(msg) ==
    Len(log') > 1 /\ log'[1] = "Connection status change" /\ log'[2] = msg

\* A transport emits a Succeeded status ('open' or 'connected').
SucceededNotification ==
    /\ StatusHandled("Successfully connected to WhatsApp!")
    /\ \E client \in 1..Len(listeners), status \in {"open", "connected"} :
          HandleConnection(client, status)

\* The reconnection timer runs its callback.
ReconnectionAttemptStarts ==
    \E t \in timers, throws \in BOOLEAN : ReconnectionTimeoutFires(t, throws)

\* C11: a scheduled reconnection is not lost: while isReconnecting is set and
\* its timer is pending, a step that is neither initialize nor a Succeeded
\* outcome leaves the timer pending or is the timer running performReconnection,
\* whatever Connecting, Failed or Unrecognized notification it handles.
C11_ScheduledAttemptNotLost ==
    [][(isReconnecting /\ ReconnectionTimers # {} /\ ReconnectionTimers' = {}
            /\ initCalls' = initCalls) =>
          \/ isConnected' /\ ~isReconnecting'
          \/ ReconnectionAttemptStarts]_vars

\* C12: handling a Succeeded outcome yields Connected, retryCount = 0,
\* isReconnecting = false, both handles empty and no timer left pending.
C12_SucceededResetsEverything ==
    [][SucceededNotification =>
          /\ isConnected'
          /\ currentRetries' = 0
          /\ ~isReconnecting'
          /\ connectionTimeout' = 0
          /\ reconnectionTimeout' = 0
          /\ timers' = {}]_vars

\* A Succeeded outcome has been handled and cleared both handles.
C12_Witness ==
    /\ log = <<"Connection status change", "Successfully connected to WhatsApp!",
               "Connection timeout cleared", "Reconnection timeout cleared">>
    /\ isConnected
    /\ timers = {}

\* C13: retryCount is lowered only by a Succeeded outcome (or initialize).
C13_OnlySucceededResetsBudget ==
    [][(currentRetries' < currentRetries /\ initCalls' = initCalls) => SucceededNotification]_vars

\* A Succeeded outcome arrived while the attempt that had been counted was
\* executing, and reset the counter.
C13_Witness ==
    /\ InLog("Successfully connected to WhatsApp!")
    /\ awaiting = 1
    /\ attempts = 0
    /\ currentRetries = 0
    /\ isConnected

\* Everything but the log.
controllerState ==
    <<connectionTimeout, reconnectionTimeout, currentClient, isReconnecting, isConnected,
      lastConnectionAttempt, lastConnectingEvent, currentRetries, timers, now,
      listeners, awaiting, initCalls, attempts, constructing, recovered, built>>

\* A transport emits 'connecting'.
ConnectingNotification ==
    \E client \in 1..Len(listeners) : HandleConnection(client, "connecting")

\* C14: a Connecting notification handled less than
\* MIN_CONNECTING_EVENT_INTERVAL after lastConnectingEvent changes nothing:
\* lastConnectingEvent, the flags, retryCount and both timers are as before.
C14_RapidConnectingDiscarded ==
    [][(now - lastConnectingEvent < MIN_CONNECTING_EVENT_INTERVAL /\ ConnectingNotification) =>
          UNCHANGED controllerState]_vars

\* The second of two 'connecting' notifications has been discarded; the
\* establishment timer the first one armed is the only one.
C14_Witness ==
    /\ log = <<"Connection status change", "Ignoring rapid 'connecting' event">>
    /\ lastConnectingEvent = now
    /\ Cardinality(ConnectionTimers) = 1
    /\ \A t \in ConnectionTimers : t.by = "connecting"

\* C15: after an accepted Connecting notification handled while not Connected
\* an establishment timer is pending and due within connectionTimeout.
C15_AcceptedConnectingIsGuarded ==
    [][(~isConnected /\ now - lastConnectingEvent >= MIN_CONNECTING_EVENT_INTERVAL
            /\ ConnectingNotification) =>
          \E t \in ConnectionTimers' : t.due <= now + RECONNECT_CONFIG.connectionTimeout]_vars

\* The state C16 starts from: no reconnection in progress, not Connected,
\* budget left.
IdleWithBudget ==
    ~isReconnecting /\ ~isConnected /\ currentRetries < RECONNECT_CONFIG.maxRetries

AcceptedConnecting ==
    now - lastConnectingEvent >= MIN_CONNECTING_EVENT_INTERVAL /\ ConnectingNotification

\* The establishment timer runs its callback.
EstablishmentTimerFires == \E t \in timers : ConnectionTimeoutFires(t)

\* The firing calls scheduleReconnection once: one more retry counted, one
\* reconnection timer pending.
ScheduledOnce ==
    /\ currentRetries' = currentRetries + 1
    /\ isReconnecting'
    /\ Cardinality(ReconnectionTimers') = 1

\* C16 as stated: from a state with isReconnecting = false, not Connected and
\* retryCount < maxRetries, an accepted Connecting notification leaves an
\* establishment timer due connectionTimeout later, and its firing in such a
\* state triggers exactly one scheduleReconnection.
C16_Original ==
    [][/\ (IdleWithBudget /\ AcceptedConnecting) =>
              \E t \in ConnectionTimers' : t.due = now + RECONNECT_CONFIG.connectionTimeout
       /\ (IdleWithBudget /\ EstablishmentTimerFires) => ScheduledOnce]_vars

\* C16 amended: the establishment timer is due at most connectionTimeout
\* later, and exactly connectionTimeout later when none was pending before.
C16_Amended ==
    [][/\ (IdleWithBudget /\ AcceptedConnecting) =>
              \E t \in ConnectionTimers' :
                  /\ t.due <= now + RECONNECT_CONFIG.connectionTimeout
                  /\ ConnectionTimers = {} => t.due = now + RECONNECT_CONFIG.connectionTimeout
       /\ (IdleWithBudget /\ EstablishmentTimerFires) => ScheduledOnce]_vars

\* The establishment timer armed by a 'connecting' notification has fired
\* connectionTimeout after it and scheduled one reconnection.
C16_Witness ==
    /\ Len(log) >= 2
    /\ log[1] = "Connection establishment timeout reached - no 'open' status received"
    /\ log[2] = "Attempting reconnection"
    /\ now - lastConnectingEvent = RECONNECT_CONFIG.connectionTimeout
    /\ currentRetries = 1
    /\ isReconnecting
    /\ Cardinality(ReconnectionTimers) = 1

\* C17: every execution of performReconnection starts at least retryDelay,
\* and at least MIN_CONNECTION_INTERVAL, after the start of the previous one
\* (lastConnectionAttempt is the start of the previous execution, or the later
\* time of an initialize), whatever happened in between.
C17_AttemptSpacing ==
    [][(timers # {} /\ ReconnectionAttemptStarts) =>
          /\ now - lastConnectionAttempt >= RECONNECT_CONFIG.retryDelay
          /\ now - lastConnectionAttempt >= MIN_CONNECTION_INTERVAL
          /\ lastConnectionAttempt' = now]_vars

\* The second consecutive attempt is executing, the first having thrown.
C17_Witness ==
    /\ attempts = 2
    /\ awaiting = 1
    /\ lastConnectionAttempt = now
    /\ initCalls = 1

\* What C18 compares: status, retryCount, isReconnecting and the timers.
Observed(s) == <<s.isConnected, s.currentRetries, s.isReconnecting, s.timers>>

\* A notification whose token no case of handleConnection names.
UnrecognisedNotification ==
    /\ StatusHandled("Unhandled connection status")
    /\ \E client \in 1..Len(listeners), status \in {"qr", "error"} :
          HandleConnection(client, status)

\* C18 as stated: in every controller state an unrecognised token yields the
\* same status, retryCount, isReconnecting and timers as a Failed
\* notification handled in that state.
C18_Original ==
    [][(initCalls > 0 /\ UnrecognisedNotification) =>
          Observed(Cur)' = Observed(handleConnection(Cur, "close"))]_vars

\* C18 amended: an unrecognised token is treated as Failed only when the
\* controller is neither Connected nor reconnecting; in every other state it
\* changes nothing.
C18_Amended ==
    [][(initCalls > 0 /\ UnrecognisedNotification) =>
          IF ~isConnected /\ ~isReconnecting
          THEN Observed(Cur)' = Observed(handleConnection(Cur, "close"))
          ELSE UNCHANGED controllerState]_vars

\* An unrecognised token has cancelled the establishment timer and scheduled
\* a reconnection.
C18_Witness ==
    /\ Len(log) > 1
    /\ log[2] = "Unhandled connection status"
    /\ InLog("Connection timeout cleared")
    /\ InLog("Attempting reconnection")
    /\ isReconnecting /\ ~isConnected
    /\ ConnectionTimers = {}
    /\ Cardinality(ReconnectionTimers) = 1

\* A step taken with the retry budget used up that is neither a Succeeded
\* notification nor an initialize.
ExhaustedStep ==
    /\ currentRetries >= RECONNECT_CONFIG.maxRetries
    /\ initCalls' = initCalls
    /\ ~StatusHandled("Successfully connected to WhatsApp!")

\* No scheduleReconnection call takes effect: retryCount stays, isReconnecting
\* is not set and no reconnection timer is armed.
SchedulingInert ==
    /\ currentRetries' = currentRetries
    /\ isReconnecting' => isReconnecting
    /\ ReconnectionTimers' \subseteq ReconnectionTimers

\* performReconnection has constructed a replacement transport.
TransportConstructed == Len(listeners') > Len(listeners)

\* C19 as stated: once retryCount >= maxRetries, until a Succeeded outcome or
\* initialize, no scheduleReconnection call takes effect and no replacement
\* transport is constructed.
C19_Original ==
    [][ExhaustedStep => (SchedulingInert /\ ~TransportConstructed)]_vars

\* C19 amended: once retryCount >= maxRetries, until a Succeeded outcome or
\* initialize, no scheduleReconnection call takes effect; a replacement
\* transport is constructed only by the attempt that was already scheduled
\* when retryCount reached maxRetries, after which no reconnection timer is
\* left.
C19_Amended ==
    [][ExhaustedStep =>
          /\ SchedulingInert
          /\ TransportConstructed =>
                (isReconnecting /\ ReconnectionTimers # {} /\ ReconnectionTimers' = {})]_vars

\* A Failed notification arrived with the budget used up and no reconnection
\* in progress, and scheduleReconnection refused it.
C19_Witness ==
    /\ Len(log) > 2
    /\ log[2] = "WhatsApp connection closed"
    /\ log[Len(log)] = "Maximum reconnection attempts reached"
    /\ currentRetries = RECONNECT_CONFIG.maxRetries
    /\ ~isReconnecting
    /\ timers = {}

\* The catch block of performReconnection ran in this step.
AttemptThrew == InLog("Reconnection attempt failed")'

\* C20: an exception inside performReconnection re-enters scheduleReconnection
\* under the same budget gate: with budget left it consumes one unit of
\* retryCount and schedules the next attempt, with the budget used up it is
\* refused; and the number of attempts executed since the last Succeeded
\* outcome (or initialize), whether they threw or not, never exceeds
\* maxRetries nor the retryCount consumed.
C20_SharedRetryBudget ==
    [][/\ attempts' <= RECONNECT_CONFIG.maxRetries
       /\ attempts' <= currentRetries'
       /\ AttemptThrew =>
             IF currentRetries < RECONNECT_CONFIG.maxRetries
             THEN /\ currentRetries' = currentRetries + 1
                  /\ isReconnecting'
                  /\ Cardinality(ReconnectionTimers') = 1
             ELSE /\ currentRetries' = currentRetries
                  /\ ~isReconnecting'
                  /\ ReconnectionTimers' = {}]_vars

\* The last attempt the budget allows has thrown and was refused a further
\* one.
C20_Witness ==
    /\ attempts = RECONNECT_CONFIG.maxRetries
    /\ currentRetries = RECONNECT_CONFIG.maxRetries
    /\ Len(log) = 2
    /\ log[1] = "Reconnection attempt failed"
    /\ log[2] = "Maximum reconnection attempts reached"
    /\ ~isReconnecting

\* An execution of performReconnection in which the Client constructor, the
\* import or setupEventListeners throws.
ConstructionThrows ==
    \/ /\ \E t \in ReconnectionTimers : t.due <= now
       /\ \E t \in timers : ReconnectionTimeoutFires(t, TRUE)
    \/ /\ awaiting > 0
       /\ PerformReconnectionResume(TRUE)

\* C21: an exception raised while constructing the replacement transport or
\* attaching the handlers is caught inside performReconnection: the step ends
\* in the catch block's transition (isReconnecting cleared and
\* scheduleReconnection re-entered, which either schedules the next attempt
\* or refuses for lack of budget), never with the state the throw left.
C21_ConstructionErrorsBecomeTransitions ==
    [][ConstructionThrows =>
          /\ AttemptThrew
          /\ ~InLog("Reconnection already in progress, skipping duplicate attempt")'
          /\ \/ /\ InLog("Attempting reconnection")'
                /\ isReconnecting'
                /\ currentRetries' = currentRetries + 1
                /\ \E t \in ReconnectionTimers' : t.id = reconnectionTimeout'
             \/ /\ InLog("Maximum reconnection attempts reached")'
                /\ ~isReconnecting'
                /\ currentRetries' = currentRetries]_vars

\* A replacement transport was constructed, attaching the handlers to it
\* threw, and the next attempt is scheduled.
C21_Witness ==
    /\ Len(log) >= 2
    /\ log[1] = "Reconnection attempt failed"
    /\ log[2] = "Attempting reconnection"
    /\ currentClient # 0
    /\ listeners[currentClient] = 0
    /\ awaiting = 0
    /\ isReconnecting

\* C22: initializeConnectionMonitoring, in whatever state it is called,
\* leaves retryCount = 0, isReconnecting = false, status not Connected,
\* lastConnectingEvent at its default 0 and no timer pending: none armed
\* before the call can fire after it.
C22_InitializeResets ==
    [][initCalls' # initCalls =>
          /\ currentRetries' = 0
          /\ ~isReconnecting'
          /\ ~isConnected'
          /\ lastConnectingEvent' = 0
          /\ timers' = {}
          /\ connectionTimeout' = 0
          /\ reconnectionTimeout' = 0]_vars

\* main() ran a second time while both timers were pending and cancelled
\* them.
C22_Witness ==
    /\ initCalls = 2
    /\ log = <<"Connection timeout cleared", "Reconnection timeout cleared",
               "Connection monitoring initialized for new client">>
    /\ timers = {}
    /\ currentRetries = 0

\* C23: getConnectionState() leaves status, retryCount, isReconnecting, both
\* timers with their handles, both timestamps and everything else the
\* controller keeps unchanged, so that the behaviour after it is the behaviour
\* without it; the object it returns reports that state.
C23_GetStateReadOnly ==
    [][GetConnectionState =>
          /\ UNCHANGED controllerState
          /\ getConnectionStateResult(Cur)' = getConnectionStateResult(Cur)]_vars

\* getConnectionState() was called while a reconnection was scheduled and an
\* establishment timer pending; both are still there.
C23_Witness ==
    /\ log = <<>>
    /\ isReconnecting
    /\ currentRetries = 1
    /\ Cardinality(ReconnectionTimers) = 1
    /\ Cardinality(ConnectionTimers) = 1
    /\ now = lastConnectingEvent
    /\ getConnectionStateResult(Cur).hasActiveTimeout

\* performReconnection ran to its end without throwing.
AttemptCompletes == awaiting > 0 /\ PerformReconnectionResume(FALSE)

\* initializeConnectionMonitoring has not run while an execution of
\* performReconnection was suspended at its await.
NoInitializeDuringAwait == awaiting = 0 \/ constructing # 0

\* C24: outside main(), the handlers are attached only by a completing
\* performReconnection, once, to the transport that execution constructed,
\* which had none attached, is the newest one and becomes the one in use; no
\* transport constructed before is subscribed again.  (An
\* initializeConnectionMonitoring during the await, which main() never does,
\* is left out.)
C24_NewestTransportInUse ==
    [][(NoInitializeDuringAwait /\ initCalls' = initCalls) =>
          /\ \A c \in 1..Len(listeners) :
                listeners'[c] # listeners[c] =>
                   /\ c = constructing
                   /\ listeners[c] = 0
                   /\ listeners'[c] = 1
          /\ AttemptCompletes =>
                /\ currentClient' = constructing
                /\ constructing = Len(listeners')
                /\ listeners'[constructing] = 1
          /\ Len(listeners') > Len(listeners) =>
                /\ currentClient' = Len(listeners')
                /\ listeners'[currentClient'] = 0]_vars

\* The second replacement transport is in use; the handlers are attached once
\* to it and once to each of the two before it.
C24_Witness ==
    /\ log = <<"Connection establishment timeout set", "Reconnection attempt initiated">>
    /\ initCalls = 1
    /\ listeners = <<1, 1, 1>>
    /\ currentClient = 3
    /\ awaiting = 0

\* scheduleReconnection took a fresh scheduling decision in this step.
FreshSchedulingDecision == InLog("Attempting reconnection")'

\* C25: a Succeeded outcome leaves no timer pending, so none armed before it
\* can run its callback afterwards; and a fresh scheduling decision leaves
\* exactly one reconnection timer pending, the one it armed (at least
\* retryDelay ahead and referred to by the handle), so no reconnection timer
\* armed earlier can run its callback afterwards.
C25_NoStaleTimerFires ==
    [][/\ SucceededNotification => timers' = {}
       /\ FreshSchedulingDecision =>
             /\ Cardinality(ReconnectionTimers') = 1
             /\ \A t \in ReconnectionTimers' :
                   /\ t.id = reconnectionTimeout'
                   /\ t.due >= now + RECONNECT_CONFIG.retryDelay
                   /\ t.due <= now + RECONNECT_CONFIG.retryDelay + MIN_CONNECTION_INTERVAL]_vars

\* A Succeeded outcome arrived while an establishment timer armed by
\* performReconnection was pending and cancelled it.
C25_Witness ==
    /\ log = <<"Connection status change", "Successfully connected to WhatsApp!",
               "Connection timeout cleared">>
    /\ initCalls = 1
    /\ Len(listeners) = 2
    /\ listeners[2] = 1
    /\ now - lastConnectionAttempt < RECONNECT_CONFIG.connectionTimeout
    /\ timers = {}
    /\ isConnected

\* C26 as stated: when Connected, an accepted Connecting notification leaves
\* the status no longer Connected and an establishment timer armed.
C26_Original ==
    [][(isConnected /\ AcceptedConnecting) =>
          (~isConnected' /\ ConnectionTimers' # {})]_vars

\* C26 amended: when Connected, an accepted Connecting notification records
\* its time in lastConnectingEvent and changes nothing else: the status stays
\* Connected and no establishment timer is armed.
C26_Amended ==
    [][(isConnected /\ AcceptedConnecting) =>
          /\ isConnected'
          /\ lastConnectingEvent' = now
          /\ UNCHANGED <<timers, connectionTimeout, reconnectionTimeout, currentRetries,
                         isReconnecting, lastConnectionAttempt, currentClient, listeners>>]_vars

\* A Connecting notification was accepted while Connected with no timer
\* pending.
C26_Witness ==
    /\ log = <<"Connection status change", "Connecting to WhatsApp...">>
    /\ isConnected
    /\ lastConnectingEvent = now
    /\ timers = {}
    /\ connectionTimeout = 0

\* C27: a Succeeded outcome arriving with retryCount = maxRetries yields
\* status Connected, retryCount = 0 and isReconnecting = false; and a Failed
\* notification handled in the state that late success left schedules a
\* reconnection again: retryCount = 1 and one reconnection timer pending.
C27_LateSuccessRevives ==
    [][/\ (currentRetries = RECONNECT_CONFIG.maxRetries /\ SucceededNotification) =>
             /\ isConnected'
             /\ currentRetries' = 0
             /\ ~isReconnecting'
       /\ (recovered /\ isConnected /\ ~isReconnecting /\ currentRetries = 0
              /\ StatusHandled("WhatsApp connection closed") /\ FailedNotification) =>
             /\ ~isConnected'
             /\ currentRetries' = 1
             /\ isReconnecting'
             /\ Cardinality(ReconnectionTimers') = 1
             /\ \A t \in ReconnectionTimers' : t.id = reconnectionTimeout']_vars

\* The budget was used up, a late Succeeded outcome arrived, and the Failed
\* notification after it has scheduled the first attempt of a new budget.
C27_Witness ==
    /\ recovered
    /\ Len(log) > 2
    /\ log[2] = "WhatsApp connection closed"
    /\ log[Len(log)] = "Attempting reconnection"
    /\ currentRetries = 1
    /\ isReconnecting
    /\ ~isConnected
    /\ Cardinality(ReconnectionTimers) = 1

\* C28: in every controller state, handling 'connected' yields exactly the
\* state handling 'open' yields, and handling 'disconnected' exactly the
\* state handling 'close' yields.
C28_LegacyNamesEquivalent ==
    initCalls > 0 =>
       /\ handleConnection(Cur, "connected") = handleConnection(Cur, "open")
       /\ handleConnection(Cur, "disconnected") = handleConnection(Cur, "close")

\* A reconnection is scheduled and an establishment timer pending: 'open' and
\* 'connected' both cancel the two timers, 'close' and 'disconnected' both
\* cancel them and keep isReconnecting.
C28_Witness ==
    /\ isReconnecting
    /\ Cardinality(ConnectionTimers) = 1
    /\ Cardinality(ReconnectionTimers) = 1
    /\ handleConnection(Cur, "connected").timers = {}
    /\ ~handleConnection(Cur, "connected").isReconnecting
    /\ handleConnection(Cur, "disconnected").timers = {}
    /\ handleConnection(Cur, "disconnected").isReconnecting

ReconnectScheduled == isReconnecting /\ ReconnectionTimers # {}

\* C30 as stated: while a reconnection is scheduled and its attempt has not
\* executed, a Connecting notification arms no establishment timer and
\* changes neither retryCount, isReconnecting nor the pending reconnection
\* timer.
C30_Original ==
    [][(ReconnectScheduled /\ ConnectingNotification) =>
          UNCHANGED <<timers, connectionTimeout, reconnectionTimeout, currentRetries,
                      isReconnecting>>]_vars

\* C30 amended: in that state a Connecting notification changes neither
\* retryCount, isReconnecting nor the pending reconnection timer, but an
\* accepted one arms an establishment timer, connectionTimeout ahead, when no
\* establishment timer handle is held and the status is not Connected (and
\* only then).
C30_Amended ==
    [][(ReconnectScheduled /\ ConnectingNotification) =>
          /\ UNCHANGED <<reconnectionTimeout, currentRetries, isReconnecting, isConnected>>
          /\ ReconnectionTimers' = ReconnectionTimers
          /\ IF /\ now - lastConnectingEvent >= MIN_CONNECTING_EVENT_INTERVAL
                /\ connectionTimeout = 0
                /\ ~isConnected
             THEN /\ Cardinality(ConnectionTimers') = 1
                  /\ \A t \in ConnectionTimers' :
                        /\ t.id = connectionTimeout'
                        /\ t.due = now + RECONNECT_CONFIG.connectionTimeout
             ELSE UNCHANGED <<timers, connectionTimeout>>]_vars

\* A Connecting notification arrived while a reconnection was scheduled and
\* armed an establishment timer next to the pending reconnection timer.
C30_Witness ==
    /\ log = <<"Connection status change", "Connecting to WhatsApp...",
               "Connection establishment timeout set">>
    /\ isReconnecting
    /\ currentRetries = 2
    /\ Cardinality(ReconnectionTimers) = 1
    /\ Cardinality(ConnectionTimers) = 1

\* No transport construction in performReconnection has succeeded: the only
\* clients are those main() constructed.
EveryConstructionThrew == Len(listeners) = initCalls

\* C31: with no Succeeded outcome (retryCount has not been reset since
\* retrying began) and every construction throwing, the retrying ends in the
\* exhausted state only: whenever no reconnection timer is pending, maxRetries
\* executions of performReconnection have been made, retryCount = maxRetries
\* and isReconnecting = false.
C31_RetryingEndsExhausted ==
    (EveryConstructionThrew /\ currentRetries > 0 /\ ReconnectionTimers = {}) =>
        /\ attempts = RECONNECT_CONFIG.maxRetries
        /\ currentRetries = RECONNECT_CONFIG.maxRetries
        /\ ~isReconnecting

\* C32: isReconnecting = true implies that a reconnection timer is pending,
\* or performReconnection is executing, or the establishment timer of the
\* executed attempt is pending.
C32_ReconnectingFlagNotDangling ==
    isReconnecting =>
        \/ ReconnectionTimers # {}
        \/ awaiting > 0
        \/ AttemptAwaitingOutcome

\* C33: while the status is Connected no reconnection timer is pending and
\* performReconnection constructs no replacement transport.
C33_HealthyLinkNotReplaced ==
    [][/\ isConnected' => ReconnectionTimers' = {}
       /\ (isConnected /\ initCalls' = initCalls) => ~TransportConstructed]_vars

\* C34: the flags getConnectionState reports are true exactly when a timer of
\* their kind is pending (armed, not fired, not cancelled).
C34_TimerFlagsAccurate ==
    /\ getConnectionStateResult(Cur).hasActiveTimeout <=> ConnectionTimers # {}
    /\ getConnectionStateResult(Cur).hasActiveReconnectionTimeout <=> ReconnectionTimers # {}

\* C35: every execution of performReconnection uses up a retryCount increment
\* of its own (when one starts, fewer executions than increments have been
\* made since the last Succeeded outcome or initialize), so the replacement
\* transports constructed since then never number more than maxRetries.
C35_ConstructionsWithinBudget ==
    [][/\ (ReconnectionTimers # {} /\ ReconnectionAttemptStarts) => attempts < currentRetries
       /\ built' <= attempts'
       /\ built' <= RECONNECT_CONFIG.maxRetries]_vars

\* maxRetries replacement transports have been constructed without a
\* Succeeded outcome in between.
C35_Witness ==
    /\ built = RECONNECT_CONFIG.maxRetries
    /\ attempts = RECONNECT_CONFIG.maxRetries
    /\ currentRetries = RECONNECT_CONFIG.maxRetries
    /\ initCalls = 1
    /\ Len(listeners) = 1 + RECONNECT_CONFIG.maxRetries

\* A transport that performReconnection has replaced emits a status: main()
\* ran once, the transport in use is a later one, and the emitting one still
\* has its listener.
SupersededNotification ==
    /\ initCalls = 1
    /\ currentClient > 1
    /\ Len(log') > 0
    /\ log'[1] = "Connection status change"
    /\ \E client \in 1..(currentClient - 1), status \in ConnectionStatus :
          HandleConnection(client, status)

\* C36: a status notification emitted by a superseded transport instance
\* changes nothing in the controller state.
C36_SupersededTransportIgnored ==
    [][SupersededNotification => UNCHANGED controllerState]_vars

\* The first Connecting notification since initialize: none has been accepted
\* yet (lastConnectingEvent still holds the 0 initialize stored).
FirstConnecting ==
    /\ initCalls > 0
    /\ lastConnectingEvent = 0
    /\ ConnectingNotification

\* C37: the first Connecting notification after initialize is accepted, not
\* debounced, whatever the clock reads.
C37_FirstConnectingAccepted ==
    [][FirstConnecting =>
          /\ ~InLog("Ignoring rapid 'connecting' event")'
          /\ InLog("Connecting to WhatsApp...")']_vars

====
